---- MODULE Spec2Model ----
(***************************************************************************)
(* A model of yaslama/astrocalc (src/astrocalc.go).                        *)
(*                                                                         *)
(* The library is a set of functions over JulianDate values and one        *)
(* mutable object, SunCalc, that owns a list of sun-time definitions.      *)
(* The state machine is a caller that holds one SunCalc and calls the      *)
(* exported (and, for the claims about them, the internal) functions one   *)
(* at a time: a call reads its arguments from a bounded set, runs the      *)
(* translated function and leaves the result in ret.                       *)
(*                                                                         *)
(* Numbers.  TLC's integers are 32 bits wide, Go's int64 and float64 are   *)
(* not, so quantities are kept in fixed point at the scales below:         *)
(*   - the sub-second part of an instant counts ticks, NanoPerSec to the   *)
(*     second (Go: 10^9 nanoseconds);                                      *)
(*   - a float64 is an integer count of millionths (Micro): micro-radians  *)
(*     for angles, millionths for sines and cosines;                       *)
(*   - a float64 day count is a record [nan, w, f]: w whole days plus f    *)
(*     millionths of a day, 0 <= f < Micro, or not-a-number;               *)
(*   - the int64 nano-degree accumulators of siderealTime and              *)
(*     solarMeanAnomaly are exact, in two limbs [hi, lo] of base Limb.     *)
(***************************************************************************)
EXTENDS Integers, Sequences, FiniteSets, TLC

VARIABLES
    times,      \* SunCalc.times: the definition list of the one calculator
    addLog,     \* history: the arguments of the completed AddTime calls, in order
    pc,         \* the caller: "idle" between calls, "done" holding a result
    ret,        \* the last call: [op, in, out]
    mu,         \* goroutines: the callers' mutex [used, holder] (holder 0: free)
    tpc,        \* goroutines: the position of each in its call
    tloc,       \* goroutines: the value of s.times each has read
    tseen,      \* goroutines: what each GetTimes saw and returned
    raced       \* goroutines: two conflicting accesses to s.times overlapped

vars == <<times, addLog, pc, ret, mu, tpc, tloc, tseen, raced>>

----------------------------------------------------------------------------
(* Bounds of the model *)

NanoPerSec == 1000      \* ticks per second (Go: 10^9 nanoseconds)

MaxQuarter == 8         \* instants span -MaxQuarter..MaxQuarter quarter days

MaxWhole == 2           \* float day counts span -MaxWhole..MaxWhole days

MaxAdd == 2             \* AddTime calls of the sequential caller

NProcs == 2             \* goroutines of the concurrent callers

----------------------------------------------------------------------------
(* Go integer arithmetic: / and % truncate toward zero *)

GoQuo(a, b) == IF a >= 0 THEN a \div b ELSE -((-a) \div b)

GoRem(a, b) == a - b * GoQuo(a, b)

integerDivideNoFix(a, b) == [q |-> GoQuo(a, b), r |-> GoRem(a, b)]

integerDivide(a, b) ==
    LET q == GoQuo(a, b)
        r == GoRem(a, b)
    IN  IF r < 0 THEN [q |-> q - 1, r |-> r + b] ELSE [q |-> q, r |-> r]

----------------------------------------------------------------------------
(* date/time constants and conversions *)

daySec == 60 * 60 * 24

halfDaySec == 60 * 60 * 12

halfDayNano == NanoPerSec * 60 * 60 * 12

dayNano == daySec * NanoPerSec

j1970 == 2440588

j2000 == 2451545

JulianDate(jdn, t) == [julianDayNumber |-> jdn, time |-> t]

removeHalfDay(j) ==
    IF j.time < halfDayNano
    THEN JulianDate(j.julianDayNumber - 1, j.time + halfDayNano)
    ELSE JulianDate(j.julianDayNumber, j.time - halfDayNano)

\* a time.Time: Unix seconds and the sub-second part
Instant(s, n) == [sec |-> s, nsec |-> n]

NewJulian(t) ==
    LET d == integerDivide(t.sec, daySec)
    IN  removeHalfDay(JulianDate(d.q + j1970, d.r * NanoPerSec + t.nsec))

toDays(t) ==
    LET jdn == NewJulian(t)
    IN  JulianDate(jdn.julianDayNumber - j2000, jdn.time)

\* time.Unix(sec, nsec): nsec outside [0, 1s) is carried into sec
unixTime(sec, nsec) ==
    IF nsec < 0 \/ nsec >= NanoPerSec
    THEN LET n == GoQuo(nsec, NanoPerSec)
             r == nsec - n * NanoPerSec
         IN  IF r < 0 THEN Instant(sec + n - 1, r + NanoPerSec)
                      ELSE Instant(sec + n, r)
    ELSE Instant(sec, nsec)

TimeTwice(j) ==
    unixTime((j.julianDayNumber - j1970) * daySec + 2 * halfDaySec, j.time)

Time(j) == unixTime((j.julianDayNumber - j1970) * daySec + halfDaySec, j.time)

----------------------------------------------------------------------------
(* float64 in fixed point.  A float64 angle or ratio is an integer count of *)
(* millionths, or NaN; a quotient too large to hold saturates at Huge,      *)
(* the model's infinity.                                                    *)

Micro == 10^6

NaN == 1 - 2^30 - 2^30

Huge == 2 * 10^9

Abs(a) == IF a < 0 THEN -a ELSE a

Sgn(a) == IF a < 0 THEN -1 ELSE 1

\* <<q, r>> with a * b = q * c + r, for 0 <= a < c < 2^29 and b >= 0, taking
\* the digits of b in the largest base that keeps every intermediate value
\* inside 32 bits
RECURSIVE MulDivN(_, _, _)
MulDivN(a, b, c) ==
    IF b = 0 THEN <<0, 0>>
    ELSE LET k == 2^29 \div c
             h == MulDivN(a, b \div k, c)
             t == k * h[2] + a * (b % k)
         IN  <<k * h[1] + t \div c, t % c>>

\* a * b / c, truncated toward zero; a divisor of more than 28 bits is
\* first shortened, with the dividend, by four bits
RECURSIVE MulDiv(_, _, _)
MulDiv(a, b, c) ==
    LET n == Abs(a)
        m == Abs(b)
        k == Abs(c)
    IN  IF k > 2^28 THEN Sgn(a) * Sgn(b) * Sgn(c) * MulDiv(n \div 16, m, k \div 16)
        ELSE Sgn(a) * Sgn(b) * Sgn(c)
             * ((n \div k) * m + MulDivN(n % k, m, k)[1])

IsNaN(a) == a = NaN

FAdd(a, b) == IF IsNaN(a) \/ IsNaN(b) THEN NaN ELSE a + b

FSub(a, b) == IF IsNaN(a) \/ IsNaN(b) THEN NaN ELSE a - b

FNeg(a) == IF IsNaN(a) THEN NaN ELSE -a

FMul(a, b) == IF IsNaN(a) \/ IsNaN(b) THEN NaN ELSE MulDiv(a, b, Micro)

FDiv(a, b) ==
    IF IsNaN(a) \/ IsNaN(b) THEN NaN
    ELSE IF b = 0 THEN (IF a = 0 THEN NaN ELSE Sgn(a) * Huge)
    ELSE IF Abs(a) \div Abs(b) >= Huge \div Micro THEN Sgn(a) * Sgn(b) * Huge
    ELSE MulDiv(a, Micro, b)

\* comparisons with NaN are false
FLt(a, b) == ~IsNaN(a) /\ ~IsNaN(b) /\ a < b

FGe(a, b) == ~IsNaN(a) /\ ~IsNaN(b) /\ a >= b

Pi == 3141593

TwoPi == 2 * Pi

HalfPi == Pi \div 2

\* sin on [-pi/2, pi/2]: the Taylor polynomial to the ninth power
SinPoly(y) ==
    LET y2 == FMul(y, y)
        t3 == FMul(y, y2) \div 6
        t5 == FMul(t3, y2) \div 20
        t7 == FMul(t5, y2) \div 42
        t9 == FMul(t7, y2) \div 72
    IN  y - t3 + t5 - t7 + t9

\* math.Sin
Sin(a) ==
    IF IsNaN(a) THEN NaN
    ELSE LET r == a % TwoPi
         IN  IF r <= HalfPi THEN SinPoly(r)
             ELSE IF r <= Pi + HalfPi THEN SinPoly(Pi - r)
             ELSE SinPoly(r - TwoPi)

\* math.Cos
Cos(a) == IF IsNaN(a) THEN NaN ELSE Sin(a + HalfPi)

\* math.Tan
Tan(a) == FDiv(Sin(a), Cos(a))

RECURSIVE SqrtIter(_, _)
SqrtIter(v, s) ==
    LET n == (s + MulDiv(v, Micro, s)) \div 2
    IN  IF n >= s THEN s ELSE SqrtIter(v, n)

\* math.Sqrt on [0, 1], by Newton's iteration from above
Sqrt(v) == IF v <= 0 THEN 0 ELSE SqrtIter(v, (v + Micro) \div 2)

\* acos on [0, 1]: sqrt(1 - x) times a polynomial (Abramowitz and Stegun
\* 4.4.46)
AcosPoly(x) ==
    LET p7 == -1262
        p6 == 6670 + FMul(x, p7)
        p5 == -17088 + FMul(x, p6)
        p4 == 30892 + FMul(x, p5)
        p3 == -50174 + FMul(x, p4)
        p2 == 88979 + FMul(x, p3)
        p1 == -214599 + FMul(x, p2)
        p0 == 1570796 + FMul(x, p1)
    IN  FMul(Sqrt(Micro - x), p0)

\* math.Acos: NaN outside [-1, 1]
Acos(x) ==
    IF IsNaN(x) \/ x > Micro \/ x < -Micro THEN NaN
    ELSE IF x >= 0 THEN AcosPoly(x) ELSE Pi - AcosPoly(-x)

\* math.Asin: NaN outside [-1, 1]
Asin(x) ==
    IF IsNaN(x) \/ x > Micro \/ x < -Micro THEN NaN
    ELSE IF x >= 0 THEN HalfPi - AcosPoly(x) ELSE AcosPoly(-x) - HalfPi

\* atan on [-1, 1] (Abramowitz and Stegun 4.4.49)
AtanPoly(z) ==
    LET z2 == FMul(z, z)
        p8 == 2866
        p7 == -16166 + FMul(z2, p8)
        p6 == 42910 + FMul(z2, p7)
        p5 == -75290 + FMul(z2, p6)
        p4 == 106563 + FMul(z2, p5)
        p3 == -142089 + FMul(z2, p4)
        p2 == 199936 + FMul(z2, p3)
        p1 == -333331 + FMul(z2, p2)
        p0 == Micro + FMul(z2, p1)
    IN  FMul(z, p0)

\* atan(y / x) for x # 0, in (-pi/2, pi/2)
AtanQuo(y, x) ==
    IF Abs(y) <= Abs(x) THEN AtanPoly(MulDiv(y, Micro, x))
    ELSE Sgn(y) * Sgn(x) * HalfPi - AtanPoly(MulDiv(x, Micro, y))

\* math.Atan2; the fixed point has no negative zero
Atan2(y, x) ==
    IF IsNaN(y) \/ IsNaN(x) THEN NaN
    ELSE IF x = 0 THEN (IF y > 0 THEN HalfPi ELSE IF y < 0 THEN -HalfPi ELSE 0)
    ELSE IF x > 0 THEN AtanQuo(y, x)
    ELSE IF y >= 0 THEN AtanQuo(y, x) + Pi
    ELSE AtanQuo(y, x) - Pi

----------------------------------------------------------------------------
(* float64 values too large for one fixed-point integer (day counts, and   *)
(* angles in degrees that grow with the day count): whole units plus       *)
(* millionths, value = w + f / Micro with 0 <= f < Micro, or NaN.          *)

DNaN == [nan |-> TRUE, w |-> 0, f |-> 0]

D(w, f) == [nan |-> FALSE, w |-> w + f \div Micro, f |-> f % Micro]

DInt(n) == D(n, 0)

DMicro(x) == IF IsNaN(x) THEN DNaN ELSE D(0, x)

DNeg(a) == IF a.nan THEN DNaN ELSE D(-a.w, -a.f)

DAdd(a, b) == IF a.nan \/ b.nan THEN DNaN ELSE D(a.w + b.w, a.f + b.f)

DSub(a, b) == IF a.nan \/ b.nan THEN DNaN ELSE D(a.w - b.w, a.f - b.f)

\* a plus the float x
DAddF(a, x) == DAdd(a, DMicro(x))

\* a times the non-negative constant c (in millionths), for a >= 0
DMulPos(a, c) ==
    LET p == MulDivN(a.w, c, Micro)
    IN  D(p[1], p[2] + MulDiv(a.f, c, Micro))

DMulC(a, c) ==
    IF a.nan THEN DNaN
    ELSE IF a.w >= 0 THEN DMulPos(a, c) ELSE DNeg(DMulPos(DNeg(a), c))

\* the whole number n >= 0 times the float x
DMulF(n, x) ==
    IF IsNaN(x) THEN DNaN
    ELSE LET p == MulDivN(Abs(x) % Micro, n, Micro)
             q == D((Abs(x) \div Micro) * n + p[1], p[2])
         IN  IF x >= 0 THEN q ELSE DNeg(q)

\* math.Modf: the integer part, truncated toward zero, and the fraction,
\* which has the sign of the value
Modf(a) ==
    IF a.nan THEN [int |-> NaN, frac |-> NaN]
    ELSE IF a.w >= 0 \/ a.f = 0 THEN [int |-> a.w, frac |-> a.f]
    ELSE [int |-> a.w + 1, frac |-> a.f - Micro]

\* math.Floor, math.Ceil
Floor(a) == IF a.nan THEN NaN ELSE a.w

Ceil(a) == IF a.nan THEN NaN ELSE IF a.f > 0 THEN a.w + 1 ELSE a.w

\* int64(x) of a float64 holding no integer: implementation-defined in Go
ImplDefined == NaN

\* float64(jd.julianDayNumber) + float64(jd.time)/(daySec*1e9)
DayFloat(jd) == D(jd.julianDayNumber, MulDiv(jd.time, Micro, dayNano))

JulianFromFloat(j) ==
    LET m == Modf(j)
    IN  IF j.nan THEN JulianDate(ImplDefined, ImplDefined)
        ELSE JulianDate(m.int, MulDiv(m.frac, dayNano, Micro))

\* JulianDate.Time of a JulianDate that may hold implementation-defined
\* fields: arithmetic on them stays implementation-defined
TimeOf(j) ==
    IF j.julianDayNumber = ImplDefined THEN Instant(ImplDefined, ImplDefined)
    ELSE Time(j)

----------------------------------------------------------------------------
(* int64 values wider than 32 bits: value = hi * Limb + lo, 0 <= lo < Limb *)

Limb == 10^8

Wide(hi, lo) == [hi |-> hi + lo \div Limb, lo |-> lo % Limb]

WNeg(a) == Wide(-a.hi, -a.lo)

WAdd(a, b) == Wide(a.hi + b.hi, a.lo + b.lo)

\* c * n for c >= 0
WMulInt(c, n) ==
    LET p == MulDivN(c.lo, Abs(n), Limb)
        m == Wide(c.hi * Abs(n) + p[1], p[2])
    IN  IF n >= 0 THEN m ELSE WNeg(m)

\* Go's a % m for a modulus m that is a whole number of limbs: the sign of
\* the result is the sign of a
WRem(a, m) ==
    IF a.hi >= 0 THEN Wide(a.hi % m.hi, a.lo)
    ELSE WNeg(Wide((WNeg(a)).hi % m.hi, (WNeg(a)).lo))

\* float64(i)/1e9 for i in nano-degrees, in micro-degrees
NanoDeg(a) ==
    IF a.hi >= 0 THEN a.hi * 100000 + a.lo \div 1000
    ELSE -((WNeg(a)).hi * 100000 + (WNeg(a)).lo \div 1000)

----------------------------------------------------------------------------
(* general calculations for position *)

\* rad * x for x in micro-degrees
Rad(x) == IF IsNaN(x) THEN NaN ELSE MulDiv(x, 1745329, 100000000)

\* rad * x for a wide x in degrees
RadD(x) ==
    IF x.nan THEN NaN
    ELSE IF x.w >= 0 THEN MulDiv(x.w, 1745329, 100) + Rad(x.f)
    ELSE -(MulDiv((DNeg(x)).w, 1745329, 100) + Rad((DNeg(x)).f))

e == Rad(23439700)  \* obliquity of the Earth

stCoef0Nano == Wide(2801, 60000000)

stCoef1Nano == Wide(3609, 85623500)

FullCircleNano == Wide(3600, 0)

rightAscension(l, b) ==
    Atan2(FSub(FMul(Sin(l), Cos(e)), FMul(Tan(b), Sin(e))), Cos(l))

declination(l, b) ==
    Asin(FAdd(FMul(Sin(b), Cos(e)), FMul(FMul(Cos(b), Sin(e)), Sin(l))))

azimuth(H, phi, dec) ==
    Atan2(Sin(H), FSub(FMul(Cos(H), Sin(phi)), FMul(Tan(dec), Cos(phi))))

altitude(H, phi, dec) ==
    Asin(FAdd(FMul(Sin(phi), Sin(dec)),
              FMul(FMul(Cos(phi), Cos(dec)), Cos(H))))

siderealTime(d, lw) ==
    LET i  == WRem(WAdd(stCoef0Nano, WMulInt(stCoef1Nano, d.julianDayNumber)),
                   FullCircleNano)
        st == FSub(Rad(NanoDeg(i)
                       + MulDiv(d.time, NanoDeg(stCoef1Nano), dayNano)), lw)
    IN  IF FLt(st, 0) THEN st + TwoPi ELSE st

----------------------------------------------------------------------------
(* general sun calculations *)

maCoef0Nano == Wide(3575, 29100000)

maCoef1Nano == Wide(9, 85600280)

solarMeanAnomaly(d) ==
    LET i  == WRem(WAdd(maCoef0Nano, WMulInt(maCoef1Nano, d.julianDayNumber)),
                   FullCircleNano)
        ma == Rad(NanoDeg(i) + MulDiv(d.time, NanoDeg(maCoef1Nano), dayNano))
    IN  IF FLt(ma, 0) THEN ma + TwoPi ELSE ma

eclipticLongitude(m) ==
    LET c == Rad(FAdd(FAdd(FMul(1914800, Sin(m)),
                           FMul(20000, Sin(FMul(2 * Micro, m)))),
                      FMul(300, Sin(FMul(3 * Micro, m)))))  \* equation of center
        p == Rad(102937200)                                 \* perihelion of the Earth
    IN  FAdd(FAdd(FAdd(m, c), p), Pi)

sunCoords(d) ==
    LET m == solarMeanAnomaly(d)
        l == eclipticLongitude(m)
    IN  [dec |-> declination(l, 0), ra |-> rightAscension(l, 0)]

----------------------------------------------------------------------------
(* The calculator *)

sunTime(a, r, s) == [angle |-> a, riseName |-> r, setName |-> s]

\* angles in micro-degrees
NewSunCalc ==
    << sunTime(-833000, "sunrise", "sunset"),
       sunTime(-300000, "sunriseEnd", "sunsetStart"),
       sunTime(-6000000, "dawn", "dusk"),
       sunTime(-12000000, "nauticalDawn", "nauticalDusk"),
       sunTime(-18000000, "nightEnd", "night"),
       sunTime(6000000, "goldenHourEnd", "goldenHour") >>

GetPosition(date, lat, lng) ==
    LET lw  == Rad(-lng)
        phi == Rad(lat)
        d   == toDays(date)
        c   == sunCoords(d)
        h   == FSub(siderealTime(d, lw), c.ra)
    IN  [azim |-> azimuth(h, phi, c.dec), alti |-> altitude(h, phi, c.dec)]

\* an AddTime that puts the definition first
AddTimeFront(ts, angle, riseName, setName) ==
    <<sunTime(angle, riseName, setName)>> \o ts

\* an AddTime that replaces the last definition
AddTimeOver(ts, angle, riseName, setName) ==
    [ts EXCEPT ![Len(ts)] = sunTime(angle, riseName, setName)]

AddTime(ts, angle, riseName, setName) ==
    Append(ts, sunTime(angle, riseName, setName))

----------------------------------------------------------------------------
(* calculations for sun times *)

j0 == 900

round(val, roundOn, places) ==
    LET pow   == 10^places
        digit == IF val.nan THEN DNaN ELSE D(val.w * pow, val.f * pow)
        div   == Modf(digit).frac
        rnd   == IF FGe(div, roundOn) THEN Ceil(digit) ELSE Floor(digit)
    IN  IF IsNaN(rnd) THEN DNaN
        ELSE D(rnd \div pow, ((rnd % pow) * Micro) \div pow)

julianCycle(d, lw) ==
    round(DAddF(DAddF(DayFloat(d), -j0), FNeg(FDiv(lw, TwoPi))), 500000, 0)

approxTransit(Ht, lw, n) ==
    DAdd(DMicro(FAdd(j0, FDiv(FAdd(Ht, lw), TwoPi))), n)

solarTransitJ(ds, M, L) ==
    DAddF(DAddF(DAdd(DInt(j2000), ds), FMul(5300, Sin(M))),
          FNeg(FMul(6900, Sin(FMul(2 * Micro, L)))))

\* an hour angle that is clamped where the sun never reaches the altitude
hourAngleClamped(h, phi, d) ==
    LET x == FDiv(FSub(Sin(h), FMul(Sin(phi), Sin(d))), FMul(Cos(phi), Cos(d)))
    IN  IF IsNaN(x) THEN NaN
        ELSE IF x > Micro THEN 0 ELSE IF x < -Micro THEN Pi ELSE Acos(x)

hourAngle(h, phi, d) ==
    Acos(FDiv(FSub(Sin(h), FMul(Sin(phi), Sin(d))), FMul(Cos(phi), Cos(d))))

\* returns set time for the given sun altitude
getSetJ(h, lw, phi, dec, n, m, l) ==
    LET w == hourAngle(h, phi, dec)
        a == approxTransit(w, lw, n)
    IN  solarTransitJ(a, m, l)

\* result[k] = v
Put(result, k, v) == (k :> v) @@ result

\* a loop body that does not skip a side whose name is empty
GetTimesStepAll(result, t, c) ==
    LET jSet  == getSetJ(Rad(t.angle), c.lw, c.phi, c.dec, c.n, c.m, c.l)
        jRise == DSub(c.jNoon, DSub(jSet, c.jNoon))
    IN  Put(Put(result, t.riseName, TimeOf(JulianFromFloat(jRise))),
            t.setName, TimeOf(JulianFromFloat(jSet)))

\* one pass of the loop over s.times; c holds the locals of GetTimes
GetTimesStep(result, t, c) ==
    LET jSet  == getSetJ(Rad(t.angle), c.lw, c.phi, c.dec, c.n, c.m, c.l)
        jRise == DSub(c.jNoon, DSub(jSet, c.jNoon))
        r1    == IF t.riseName # ""
                 THEN Put(result, t.riseName, TimeOf(JulianFromFloat(jRise)))
                 ELSE result
    IN  IF t.setName # ""
        THEN Put(r1, t.setName, TimeOf(JulianFromFloat(jSet)))
        ELSE r1

\* for _, t := range s.times
RECURSIVE GetTimesLoop(_, _, _)
GetTimesLoop(result, ts, c) ==
    IF ts = << >> THEN result
    ELSE GetTimesLoop(GetTimesStep(result, Head(ts), c), Tail(ts), c)

\* the locals of GetTimes that the loop reads
GetTimesLocals(date, lat, lng) ==
    LET lw    == Rad(-lng)
        phi   == Rad(lat)
        d     == toDays(date)
        n     == julianCycle(d, lw)
        ds    == approxTransit(0, lw, n)
        m     == solarMeanAnomaly(JulianFromFloat(ds))
        l     == eclipticLongitude(m)
        dec   == declination(l, 0)
        jNoon == solarTransitJ(ds, m, l)
    IN  [lw |-> lw, phi |-> phi, dec |-> dec, n |-> n, ds |-> ds, m |-> m,
         l |-> l, jNoon |-> jNoon]

GetTimes(ts, date, lat, lng) ==
    LET c  == GetTimesLocals(date, lat, lng)
        r0 == "solarNoon" :> TimeOf(JulianFromFloat(c.jNoon))
        r1 == Put(r0, "nadir", TimeOf(JulianFromFloat(DAddF(c.jNoon, -500000))))
    IN  GetTimesLoop(r1, ts, c)

----------------------------------------------------------------------------
(* moon calculations *)

\* geocentric ecliptic coordinates of the moon
moonCoords(jd) ==
    LET d  == DayFloat(jd)
        L  == RadD(DAdd(D(218, 316000), DMulC(d, 13176396)))  \* ecliptic longitude
        M  == RadD(DAdd(D(134, 963000), DMulC(d, 13064993)))  \* mean anomaly
        F  == RadD(DAdd(D(93, 272000), DMulC(d, 13229350)))   \* mean distance
        l  == FAdd(L, FMul(Rad(6289000), Sin(M)))             \* longitude
        b  == FMul(Rad(5128000), Sin(F))                      \* latitude
        dt == DSub(DInt(385001), DMulF(20905, Cos(M)))        \* distance in km
    IN  [dec |-> declination(l, b), ra |-> rightAscension(l, b), dist |-> dt]

GetMoonPosition(date, lat, lng) ==
    LET lw  == Rad(-lng)
        phi == Rad(lat)
        d   == toDays(date)
        c   == moonCoords(d)
        H   == FSub(siderealTime(d, lw), c.ra)
        h0  == altitude(H, phi, c.dec)
        \* altitude correction for refraction
        h   == FAdd(h0, FDiv(Rad(17000),
                             Tan(FAdd(h0, FDiv(Rad(10260000),
                                               FAdd(h0, Rad(5100000)))))))
    IN  [azim |-> azimuth(H, phi, c.dec), alti |-> h, dist |-> c.dist]

----------------------------------------------------------------------------
(* Inputs *)

Quarter == daySec \div 4

\* 2004-04-01T12:00:00Z and 2014-07-29T19:03:25Z, the instants of the tests,
\* and 1999-06-21T12:00:00Z, before J2000
T2004 == Instant(1080820800, 0)

T2014 == Instant(1406660605, 0)

T1999 == Instant(929966400, 0)

\* 2014-07-30T05:43:20.730Z: the Moon is 1.87 degrees below the horizon of
\* the tests' observer
TMoonLow == Instant(1406699000, 730)

Instants ==
    { Instant(k * Quarter + o, n) :
        k \in -MaxQuarter..MaxQuarter, o \in {-1, 0, 1},
        n \in {0, 1, NanoPerSec - 1} }
    \cup {T2004, T2014, T1999}

FloatDays ==
    { D(w, f) : w \in -MaxWhole..MaxWhole, f \in {0, 200000, 499999, 500000, 750000} }
    \cup {D(2456867, 907453), D(-193, 903031)}

JulianDates ==
    { JulianDate(d, t) :
        d \in {-5000, -102, -MaxWhole, -1, 0, 1, MaxWhole, 5323},
        t \in {0, dayNano \div 2, 9 * (dayNano \div 10), dayNano - 1} }

Longitudes == {-Pi, 0, Rad(-35233000), Pi}

\* latitude and longitude in micro-degrees: the tests' observer, and one north
\* of the polar circle
Observers == {<<31783000, 35233000>>, <<70000000, 35233000>>}

AddArgs ==
    << sunTime(-4000000, "blueHourEnd", "blueHour"),
       sunTime(80000000, "", "highSun"),
       sunTime(80000000, "sunrise", "") >>

\* the values s.times takes: the defaults followed by added definitions
Configs ==
    { NewSunCalc \o s :
        s \in UNION { [1..n -> {AddArgs[i] : i \in 1..Len(AddArgs)}] : n \in 0..MaxAdd } }

NoRet == [op |-> "none"]

\* the callers share no mutex
NoMutex == [used |-> FALSE, holder |-> 0]

----------------------------------------------------------------------------
(* The sequential caller *)

Procs == 1..NProcs

Init ==
    /\ times = NewSunCalc
    /\ addLog = << >>
    /\ pc = "idle"
    /\ ret = NoRet
    /\ mu = NoMutex
    /\ tpc = [p \in Procs |-> "done"]
    /\ tloc = [p \in Procs |-> << >>]
    /\ tseen = [p \in Procs |-> NoRet]
    /\ raced = FALSE

conc == <<mu, tpc, tloc, tseen, raced>>

\* the caller receives r
Returns(r) ==
    /\ pc' = "done"
    /\ ret' = r
    /\ UNCHANGED <<times, addLog, conc>>

CallNewJulian ==
    /\ pc = "idle"
    /\ \E t \in Instants :
          Returns([op |-> "NewJulian", in |-> t, out |-> NewJulian(t),
                   back |-> Time(NewJulian(t))])

CallToDays ==
    /\ pc = "idle"
    /\ \E t \in Instants :
          Returns([op |-> "toDays", in |-> t, out |-> toDays(t)])

CallJulianFromFloat ==
    /\ pc = "idle"
    /\ \E j \in FloatDays :
          Returns([op |-> "JulianFromFloat", in |-> j,
                   out |-> JulianFromFloat(j)])

CallRound ==
    /\ pc = "idle"
    /\ \E x \in FloatDays :
          Returns([op |-> "round", in |-> x, out |-> round(x, 500000, 0)])

CallJulianCycle ==
    /\ pc = "idle"
    /\ \E d \in JulianDates, lw \in Longitudes :
          Returns([op |-> "julianCycle", in |-> <<d, lw>>,
                   out |-> julianCycle(d, lw)])

CallSiderealTime ==
    /\ pc = "idle"
    /\ \E d \in JulianDates, lw \in Longitudes :
          Returns([op |-> "siderealTime", in |-> <<d, lw>>,
                   out |-> siderealTime(d, lw)])

CallSolarMeanAnomaly ==
    /\ pc = "idle"
    /\ \E d \in JulianDates :
          Returns([op |-> "solarMeanAnomaly", in |-> d,
                   out |-> solarMeanAnomaly(d)])

\* GetPosition(date, lat, lng) returns out
GetPositionReturns(date, lat, lng, out) ==
    /\ pc = "idle"
    /\ Returns([op |-> "GetPosition", in |-> <<date, lat, lng>>, out |-> out])

CallGetPosition ==
    \E t \in {T2014, T1999}, o \in Observers :
        GetPositionReturns(t, o[1], o[2], GetPosition(t, o[1], o[2]))

\* GetMoonPosition(date, lat, lng) returns out
GetMoonPositionReturns(date, lat, lng, out) ==
    /\ pc = "idle"
    /\ Returns([op |-> "GetMoonPosition", in |-> <<date, lat, lng>>,
                out |-> out])

CallGetMoonPosition ==
    \E t \in {T2014, T1999, TMoonLow}, o \in Observers :
        GetMoonPositionReturns(t, o[1], o[2], GetMoonPosition(t, o[1], o[2]))

\* GetTimes(date, lat, lng), having read ts in s.times, returns out
GetTimesReturns(ts, date, lat, lng, out) ==
    /\ pc = "idle"
    /\ times = ts
    /\ Returns([op |-> "GetTimes", in |-> <<date, lat, lng>>, out |-> out])

CallGetTimes ==
    \E t \in {T2014, T1999}, o \in Observers, ts \in Configs :
        GetTimesReturns(ts, t, o[1], o[2], GetTimes(ts, t, o[1], o[2]))

CallAddTime ==
    /\ pc = "idle"
    /\ Len(addLog) < MaxAdd
    /\ \E i \in 1..Len(AddArgs) :
          LET a == AddArgs[i]
          IN  /\ times' = AddTime(times, a.angle, a.riseName, a.setName)
              /\ addLog' = Append(addLog, a)
              /\ ret' = [op |-> "AddTime", in |-> a]
    /\ pc' = "done"
    /\ UNCHANGED conc

Return ==
    /\ pc = "done"
    /\ pc' = "idle"
    /\ ret' = NoRet
    /\ UNCHANGED <<times, addLog, conc>>

Next ==
    \/ CallNewJulian
    \/ CallToDays
    \/ CallJulianFromFloat
    \/ CallRound
    \/ CallJulianCycle
    \/ CallSiderealTime
    \/ CallSolarMeanAnomaly
    \/ CallGetPosition
    \/ CallGetMoonPosition
    \/ CallGetTimes
    \/ CallAddTime
    \/ Return

Spec == Init /\ [][Next]_vars

----------------------------------------------------------------------------
(* Goroutines sharing the calculator.  Each makes one call, AddTime or
   GetTimes.  AddTime is the statement s.times = append(s.times, ...): a read
   of s.times and then a write of it.  GetTimes reads s.times where its range
   loop starts and then walks what it read.  Neither takes a lock; the callers
   either share a mutex, held around each call, or use none. *)

\* the definition goroutine p adds
ConcArg(p) == AddArgs[((p - 1) % Len(AddArgs)) + 1]

\* the values a goroutine can read in s.times
ConcConfigs ==
    { NewSunCalc \o s :
        s \in UNION { [1..n -> {ConcArg(p) : p \in Procs}] : n \in 0..NProcs } }

\* q is inside a call: it has read s.times and has not finished
InCall(q) == tpc[q] \in {"addStore", "getIter"}

\* an access by p, as part of AddTime (writes = TRUE) or of GetTimes, overlaps
\* a call of another goroutine, and one of the two calls writes s.times
Overlaps(p, writes) ==
    \E q \in Procs \ {p} :
        /\ InCall(q)
        /\ writes \/ tpc[q] = "addStore"

InitConc ==
    /\ times = NewSunCalc
    /\ addLog = << >>
    /\ pc = "idle"
    /\ ret = NoRet
    /\ mu \in {NoMutex, [used |-> TRUE, holder |-> 0]}
    /\ tpc \in [Procs -> {"add", "get"}]
    /\ tloc = [p \in Procs |-> << >>]
    /\ tseen = [p \in Procs |-> NoRet]
    /\ raced = FALSE

seq == <<pc, ret>>

\* the caller's mu.Lock() before its call
Lock(p) ==
    /\ tpc[p] \in {"add", "get"}
    /\ mu.used /\ mu.holder = 0
    /\ mu' = [mu EXCEPT !.holder = p]
    /\ UNCHANGED <<times, addLog, tpc, tloc, tseen, raced, seq>>

\* the caller's mu.Unlock() after its call
Unlock(p) ==
    /\ tpc[p] = "done"
    /\ mu.holder = p
    /\ mu' = [mu EXCEPT !.holder = 0]
    /\ UNCHANGED <<times, addLog, tpc, tloc, tseen, raced, seq>>

\* AddTime: the read of s.times in append(s.times, ...)
AddLoad(p) ==
    /\ tpc[p] = "add"
    /\ mu.used => mu.holder = p
    /\ tloc' = [tloc EXCEPT ![p] = times]
    /\ tpc' = [tpc EXCEPT ![p] = "addStore"]
    /\ raced' = (raced \/ Overlaps(p, TRUE))
    /\ UNCHANGED <<times, addLog, tseen, mu, seq>>

\* AddTime: the assignment s.times = ...
AddStore(p) ==
    /\ tpc[p] = "addStore"
    /\ LET a == ConcArg(p)
       IN  /\ times' = AddTime(tloc[p], a.angle, a.riseName, a.setName)
           /\ addLog' = Append(addLog, a)
    /\ tpc' = [tpc EXCEPT ![p] = "done"]
    /\ raced' = (raced \/ Overlaps(p, TRUE))
    /\ UNCHANGED <<tloc, tseen, mu, seq>>

\* GetTimes: range s.times
GetLoad(p) ==
    /\ tpc[p] = "get"
    /\ mu.used => mu.holder = p
    /\ tloc' = [tloc EXCEPT ![p] = times]
    /\ tseen' = [tseen EXCEPT ![p] = [op |-> "range", log |-> addLog]]
    /\ tpc' = [tpc EXCEPT ![p] = "getIter"]
    /\ raced' = (raced \/ Overlaps(p, FALSE))
    /\ UNCHANGED <<times, addLog, mu, seq>>

\* GetTimes: the loop over the list ts that p read, and the return of out
GetIter(p, ts, out) ==
    /\ tpc[p] = "getIter"
    /\ tloc[p] = ts
    /\ tseen' = [tseen EXCEPT ![p] = [op |-> "GetTimes", log |-> tseen[p].log,
                                      list |-> ts, out |-> out]]
    /\ tpc' = [tpc EXCEPT ![p] = "done"]
    /\ raced' = (raced \/ Overlaps(p, FALSE))
    /\ UNCHANGED <<times, addLog, tloc, mu, seq>>

GetTimesRuns ==
    \E p \in Procs, ts \in ConcConfigs :
        GetIter(p, ts, GetTimes(ts, T2014, 31783000, 35233000))

NextConc ==
    \/ \E p \in Procs : Lock(p)
    \/ \E p \in Procs : AddLoad(p)
    \/ \E p \in Procs : AddStore(p)
    \/ \E p \in Procs : GetLoad(p)
    \/ GetTimesRuns
    \/ \E p \in Procs : Unlock(p)

SpecConc == InitConc /\ [][NextConc]_vars

----------------------------------------------------------------------------
(* C1: for every instant t, NewJulian(t).Time() is t: the same Unix        *)
(* seconds and the same sub-second part.                                   *)
C1_RoundTrip ==
    (pc = "done" /\ ret.op = "NewJulian") => ret.back = ret.in

\* the round trip of an instant before 1970 whose second-of-day is in the
\* first half of the day and whose sub-second part is not zero
C1_Witness ==
    /\ pc = "done" /\ ret.op = "NewJulian"
    /\ ret.in.sec < 0 /\ ret.in.nsec = NanoPerSec - 1
    /\ ret.out.time >= halfDayNano
    /\ ret.back = ret.in

----------------------------------------------------------------------------
(* C2: for every instant with Unix seconds u and sub-second part ns,       *)
(* NewJulian returns the day number floor((u - 43200) / 86400) + 2440588   *)
(* and the time ((u - 43200) mod 86400) seconds plus ns, with a            *)
(* non-negative mod; 2004-04-01T12:00:00Z gives (2453097, 0) and           *)
(* 2014-07-29T19:03:25Z gives (2456868, 25405 seconds).                    *)
C2_FloorFormula ==
    (pc = "done" /\ ret.op = "NewJulian") =>
        LET u == ret.in.sec
        IN  /\ ret.out.julianDayNumber = ((u - 43200) \div 86400) + 2440588
            /\ ret.out.time = ((u - 43200) % 86400) * NanoPerSec + ret.in.nsec
            /\ ret.in = T2004 => ret.out = JulianDate(2453097, 0)
            /\ ret.in = T2014 => ret.out = JulianDate(2456868, 25405 * NanoPerSec)

\* an instant before 1970 that is not on a noon: the floor and the
\* truncated quotient differ
C2_Witness ==
    /\ pc = "done" /\ ret.op = "NewJulian"
    /\ ret.in.sec < 0
    /\ (ret.in.sec - 43200) % 86400 # 0
    /\ ret.out.julianDayNumber < j1970
    /\ ret.out.time >= 0

----------------------------------------------------------------------------
(* C3: the keys of the map GetTimes returns are solarNoon, nadir and the   *)
(* non-empty riseName and setName of every configured definition, no       *)
(* more and no less; with the six default definitions these are the        *)
(* fourteen standard names.                                                *)
Names(ts) ==
    ({ts[i].riseName : i \in 1..Len(ts)} \cup {ts[i].setName : i \in 1..Len(ts)})
        \ {""}

FourteenNames ==
    {"sunrise", "sunset", "sunriseEnd", "sunsetStart", "dawn", "dusk",
     "nauticalDawn", "nauticalDusk", "nightEnd", "night", "goldenHourEnd",
     "goldenHour", "solarNoon", "nadir"}

C3_KeySet ==
    (pc = "done" /\ ret.op = "GetTimes") =>
        /\ DOMAIN ret.out = {"solarNoon", "nadir"} \cup Names(times)
        /\ times = NewSunCalc => DOMAIN ret.out = FourteenNames

\* GetTimes ran with a definition whose riseName is empty and whose setName
\* is not
C3_Witness ==
    /\ pc = "done" /\ ret.op = "GetTimes"
    /\ \E i \in 1..Len(times) :
          /\ times[i].riseName = ""
          /\ times[i].setName \in DOMAIN ret.out
    /\ Cardinality(DOMAIN ret.out) = Cardinality(FourteenNames) + 1

----------------------------------------------------------------------------
(* C4: after NewSunCalc and any sequence of AddTime, GetTimes and          *)
(* GetPosition calls, the definition list is the six standard definitions  *)
(* in their order followed by the arguments of the AddTime calls in call   *)
(* order.                                                                  *)
SixStandard ==
    << [angle |-> -833000, riseName |-> "sunrise", setName |-> "sunset"],
       [angle |-> -300000, riseName |-> "sunriseEnd", setName |-> "sunsetStart"],
       [angle |-> -6000000, riseName |-> "dawn", setName |-> "dusk"],
       [angle |-> -12000000, riseName |-> "nauticalDawn",
        setName |-> "nauticalDusk"],
       [angle |-> -18000000, riseName |-> "nightEnd", setName |-> "night"],
       [angle |-> 6000000, riseName |-> "goldenHourEnd",
        setName |-> "goldenHour"] >>

C4_DefinitionList == times = SixStandard \o addLog

\* GetTimes has just returned on a calculator that two AddTime calls with
\* different arguments extended
C4_Witness ==
    /\ pc = "done" /\ ret.op = "GetTimes"
    /\ Len(addLog) = 2 /\ addLog[1] # addLog[2]
    /\ Len(times) = 8 /\ times[7] = addLog[1] /\ times[8] = addLog[2]

----------------------------------------------------------------------------
(* C5: every JulianDate returned by NewJulian, toDays and JulianFromFloat  *)
(* has its time field in [0, 86400 seconds).  JulianFromFloat breaks it:   *)
(* for a negative day count that is not whole, math.Modf returns a         *)
(* negative fraction and the time is negative.                             *)
C5_TimeInDay ==
    (pc = "done" /\ ret.op \in {"NewJulian", "toDays", "JulianFromFloat"}) =>
        (0 <= ret.out.time /\ ret.out.time < dayNano)

----------------------------------------------------------------------------
(* C6: the azimuth GetPosition and GetMoonPosition return lies in          *)
(* (-pi, pi] and the altitude in [-pi/2, pi/2].  GetMoonPosition breaks    *)
(* it: where the argument of the tangent of the refraction term is near    *)
(* zero the correction is unbounded.                                       *)
C6_AnglesInRange ==
    (pc = "done" /\ ret.op \in {"GetPosition", "GetMoonPosition"}) =>
        /\ -Pi < ret.out.azim /\ ret.out.azim <= Pi
        /\ -HalfPi <= ret.out.alti /\ ret.out.alti <= HalfPi

----------------------------------------------------------------------------
(* C7: round(x, 0.5, 0) is the integer nearest to x, a tie going to the    *)
(* integer of larger magnitude, for negative x as for positive x, and      *)
(* julianCycle is that rounding of d - j0 - lw/(2 pi).  round breaks it:   *)
(* a negative x has a negative fraction, which is never >= 0.5, so it is   *)
(* always rounded down.                                                    *)
Nearest(x) ==
    IF x.w >= 0 THEN (IF x.f >= 500000 THEN x.w + 1 ELSE x.w)
    ELSE (IF x.f > 500000 THEN x.w + 1 ELSE x.w)

C7_RoundsToNearest ==
    /\ (pc = "done" /\ ret.op = "round") => ret.out = DInt(Nearest(ret.in))
    /\ (pc = "done" /\ ret.op = "julianCycle") =>
          ret.out = DInt(Nearest(DAddF(DAddF(DayFloat(ret.in[1]), -j0),
                                       FNeg(FDiv(ret.in[2], TwoPi)))))

----------------------------------------------------------------------------
(* C8: siderealTime(d, lw) and solarMeanAnomaly(d) return an angle in      *)
(* [0, 2 pi) for every day number, every time of day and every lw in       *)
(* [-pi, pi].  Both break it: only one turn is added, and only to a        *)
(* negative value; a value of a turn or more is returned as it is.         *)
C8_Normalized ==
    (pc = "done" /\ ret.op \in {"siderealTime", "solarMeanAnomaly"}) =>
        (0 <= ret.out /\ ret.out < TwoPi)

----------------------------------------------------------------------------
(* C9: a definition whose hour-angle argument                              *)
(* (sin h - sin phi sin dec) / (cos phi cos dec) is outside [-1, 1] gets   *)
(* a not-a-number hour angle, jSet and jRise; GetTimes still emits its     *)
(* non-empty names, and the other entries are those of the list without    *)
(* that definition.                                                        *)

\* the argument of the arc cosine in hourAngle
HourArg(h, phi, d) ==
    FDiv(FSub(Sin(h), FMul(Sin(phi), Sin(d))), FMul(Cos(phi), Cos(d)))

\* the definitions of ts that the sun does not reach on the day of the call
Unreached(ts, date, lat, lng) ==
    LET c == GetTimesLocals(date, lat, lng)
    IN  { i \in 1..Len(ts) : Abs(HourArg(Rad(ts[i].angle), c.phi, c.dec)) > Micro }

Without(ts, i) == SubSeq(ts, 1, i - 1) \o SubSeq(ts, i + 1, Len(ts))

\* what int64 of a not-a-number leaves in both fields of an instant
Undefined == Instant(ImplDefined, ImplDefined)

\* the statement as it stands: every entry of the list without the
\* definition is unchanged
C9_OthersAsIfAbsent ==
    (pc = "done" /\ ret.op = "GetTimes") =>
        \A i \in Unreached(times, ret.in[1], ret.in[2], ret.in[3]) :
            LET rest == GetTimes(Without(times, i), ret.in[1], ret.in[2], ret.in[3])
            IN  /\ Names(<<times[i]>>) \subseteq DOMAIN ret.out
                /\ \A k \in DOMAIN rest : ret.out[k] = rest[k]

\* amended: the names of the definition hold the conversion of a
\* not-a-number unless a later definition writes them, and every entry
\* under another name is unchanged
C9_OtherNamesAsIfAbsent ==
    (pc = "done" /\ ret.op = "GetTimes") =>
        \A i \in Unreached(times, ret.in[1], ret.in[2], ret.in[3]) :
            LET rest == GetTimes(Without(times, i), ret.in[1], ret.in[2], ret.in[3])
                own  == Names(<<times[i]>>)
            IN  /\ own \subseteq DOMAIN ret.out
                /\ \A k \in own :
                      (\A j \in (i + 1)..Len(times) : k \notin Names(<<times[j]>>))
                          => ret.out[k] = Undefined
                /\ \A k \in DOMAIN rest \ own : ret.out[k] = rest[k]
                /\ DOMAIN ret.out = DOMAIN rest \cup own

\* north of the polar circle in July three default definitions are not
\* reached, each has both names in the map, and sunrise is a real instant
C9_Witness ==
    /\ pc = "done" /\ ret.op = "GetTimes"
    /\ {3, 4, 5} \subseteq Unreached(times, ret.in[1], ret.in[2], ret.in[3])
    /\ ret.out["dawn"] = Undefined /\ ret.out["night"] = Undefined
    /\ ret.out["sunrise"] # Undefined
    /\ ret.out["solarNoon"] # Undefined

----------------------------------------------------------------------------
(* C10: the list has no lock of its own.  Calls that the callers do not    *)
(* serialize can interleave their read and their write of the list, and    *)
(* two AddTime calls can leave only one of the two definitions.  When the  *)
(* callers serialize the calls no two calls overlap, every finished        *)
(* AddTime has its definition in the list, and every GetTimes walks the    *)
(* defaults followed by the definitions of the AddTime calls that          *)
(* finished before it.                                                     *)
C10_SerializedIsConsistent ==
    mu.used =>
        /\ ~raced
        /\ times = NewSunCalc \o addLog
        /\ \A p \in Procs :
              tseen[p].op = "GetTimes" =>
                  /\ tseen[p].list = NewSunCalc \o tseen[p].log
                  /\ DOMAIN tseen[p].out
                        = {"solarNoon", "nadir"} \cup Names(tseen[p].list)

\* without a mutex two AddTime calls overlapped and the list holds one of
\* the two definitions
C10_Witness ==
    /\ ~mu.used /\ raced
    /\ \A p \in Procs : tpc[p] = "done"
    /\ Len(addLog) >= 2
    /\ Len(times) = Len(NewSunCalc) + 1

====
